---- MODULE Spec2Model ----
(***************************************************************************)
(* Model of the LRU cache of src/src/LRUCache.js: a key -> entry table     *)
(* (__keys) over a heap of doubly linked cache entries (older / newer),    *)
(* with the operations initLRU, get, put, peek and clearAll, and the        *)
(* traversals keys, values and forEach.                                    *)
(*                                                                         *)
(* Keys are ordinary string keys (none of them names a property that a     *)
(* plain object inherits from Object.prototype).                           *)
(***************************************************************************)
EXTENDS Naturals, Integers, Sequences, FiniteSets, TLC

\* ------------------------------------------------------------------ bounds

\* Under Spec, SpecAll and SpecFresh config.maxSize is drawn from
\* 1..MaxCapacity; under SpecDefault it is omitted and the capacity is
\* DefaultMaxSize.
MaxCapacity == 2
\* Keys are 1..NumKeys, values are 1..NumValues.
NumKeys == 2
NumValues == 2
\* get is called at most MaxCount times between two clearAll.
MaxCount == 1

\* ------------------------------------------------------- program constants

\* `config.maxSize || 4`
DefaultMaxSize == 4
\* the JavaScript null of an older / newer / __oldest / __newest reference
Null == 0
\* the JavaScript undefined (a missing value, a function that returns nothing)
Undefined == 0

Keys == 1..NumKeys
Values == 1..NumValues
Configs == 1..MaxCapacity

\* Addresses of cache entry objects: one more than the largest capacity, since
\* put creates its entry before it evicts.
LargestCapacity == IF MaxCapacity > DefaultMaxSize THEN MaxCapacity ELSE DefaultMaxSize
Ids == 1..(LargestCapacity + 1)

\* A heap cell that holds no object.
Free == [key |-> Null, value |-> Undefined, older |-> Null, newer |-> Null, live |-> FALSE]

VARIABLES
  __maxSize,   \* this.__maxSize
  __size,      \* this.__size
  __keys,      \* this.__keys : key -> entry address
  __oldest,    \* this.__oldest
  __newest,    \* this.__newest
  __hits,      \* this.__hits
  __misses,    \* this.__misses
  heap,        \* the entry objects, by address
  ret,         \* the last call, the branch it took and what it returned
  touchOrder,  \* history: the keys of the index and the chain, most recently touched first
  lastPut      \* history: key -> the entry of its latest put, Null once evicted / cleared

cache == <<__maxSize, __size, __keys, __oldest, __newest, __hits, __misses, heap>>
vars == <<__maxSize, __size, __keys, __oldest, __newest, __hits, __misses, heap,
          ret, touchOrder, lastPut>>

\* ----------------------------------------------------------------- helpers

\* createCacheEntry(key, value, older, newer)
createCacheEntry(key, value, older, newer) ==
  [key |-> key, value |-> value, older |-> older, newer |-> newer, live |-> TRUE]

\* The address a new object gets: a cell that holds no object.
NewId(h) == CHOOSE i \in Ids : ~h[i].live /\ \A j \in Ids : ~h[j].live => i <= j

\* `{}`: the table with no key
EmptyTable == [k \in {} |-> Null]

\* `this.__keys[key] = entry`
SetKey(tbl, key, entry) == [k \in DOMAIN tbl \cup {key} |-> IF k = key THEN entry ELSE tbl[k]]

\* Mutant of DeleteKey: the slot is kept.
DeleteKeyNot(tbl, key) == tbl

\* `delete this.__keys[key]`
DeleteKey(tbl, key) == [k \in DOMAIN tbl \ {key} |-> tbl[k]]

\* Entries reachable from a set of addresses through older / newer.
RECURSIVE Reach(_, _)
Reach(h, S) ==
  LET T == S \cup {h[i].older : i \in S} \cup {h[i].newer : i \in S}
      U == T \ {Null}
  IN IF U = S THEN S ELSE Reach(h, U)

\* What the program and its caller still refer to: the table's entries, the two
\* ends of the chain, and an entry that peek has just returned.
Roots(tbl, oldest, newest, r) ==
  ({tbl[k] : k \in DOMAIN tbl} \cup {oldest, newest}
     \cup (IF r.op = "peek" THEN {r.val} ELSE {})) \ {Null}

\* The live entries in a fixed order: those of the walk from newest through
\* older first, then the others by address.
RECURSIVE Order(_, _, _, _)
Order(h, entry, rest, acc) ==
  IF entry # Null /\ entry \in rest
    THEN Order(h, h[entry].older, rest \ {entry}, Append(acc, entry))
    ELSE IF rest = {} THEN acc
    ELSE LET m == CHOOSE i \in rest : \A j \in rest : i <= j
         IN Order(h, Null, rest \ {m}, Append(acc, m))

\* The state with the live entries ord[1], ord[2], ... moved to the addresses
\* 1, 2, ... and every reference to them changed with them.
Renumber(h, tbl, oldest, newest, r, lp, ord) ==
  LET pos == [id \in {Null} \cup Ids |->
                IF \E i \in 1..Len(ord) : ord[i] = id
                  THEN CHOOSE i \in 1..Len(ord) : ord[i] = id
                  ELSE Null]
  IN [heap |-> [i \in Ids |->
                  IF i <= Len(ord)
                    THEN [h[ord[i]] EXCEPT !.older = pos[@], !.newer = pos[@]]
                    ELSE Free],
      tbl |-> [k \in DOMAIN tbl |-> pos[tbl[k]]],
      oldest |-> pos[oldest],
      newest |-> pos[newest],
      ret |-> IF r.op = "peek" THEN [r EXCEPT !.val = pos[@]] ELSE r,
      lastPut |-> [k \in Keys |-> pos[lp[k]]]]

\* Object addresses cannot be observed, only compared: after every call the
\* objects nothing refers to are collected and the others are numbered in the
\* order above, so that states that differ only in addresses are one state.
Settle(h, tbl, oldest, newest, r, lp) ==
  CHOOSE c \in {Renumber(h, tbl, oldest, newest, r, lp, ord) :
                 ord \in {Order(h, newest, Reach(h, Roots(tbl, oldest, newest, r)), <<>>)}} :
    TRUE

\* The walk of keys(), values() and forEach: newest, newest.older, ... until null.
RECURSIVE Walk(_, _, _)
Walk(h, entry, fuel) ==
  IF entry = Null \/ fuel = 0 THEN <<>>
  ELSE <<entry>> \o Walk(h, h[entry].older, fuel - 1)

\* No walk of a well-formed chain is longer than the number of entries.
Fuel == Cardinality(Ids) + 1

chain == Walk(heap, __newest, Fuel)

\* keys(): the keys newest to oldest
RECURSIVE KeysOf(_, _)
KeysOf(h, c) == IF c = <<>> THEN <<>> ELSE <<h[Head(c)].key>> \o KeysOf(h, Tail(c))
keys == KeysOf(heap, chain)
\* values(): the values newest to oldest
RECURSIVE ValuesOf(_, _)
ValuesOf(h, c) == IF c = <<>> THEN <<>> ELSE <<h[Head(c)].value>> \o ValuesOf(h, Tail(c))
values == ValuesOf(heap, chain)
\* size()
size == __size
\* hits()
hits == __hits
\* misses()
misses == __misses

\* History bookkeeping: the key k moved to the front of a sequence of keys, and
\* the sequence cut down to the keys still in the index or on the chain.
Touch(s, k) == <<k>> \o SelectSeq(s, LAMBDA x : x # k)
Range(s) == {s[i] : i \in 1..Len(s)}
Present(h, tbl, newest) == DOMAIN tbl \cup Range(KeysOf(h, Walk(h, newest, Fuel)))
StillPresent(s, h, tbl, newest) ==
  CHOOSE t \in {SelectSeq(s, LAMBDA x : x \in P) : P \in {Present(h, tbl, newest)}} : TRUE

\* -------------------------------------------------------------------- Init

\* initLRU(config), config standing for config.maxSize and 0 for an omitted or
\* falsy one
initLRU(config) ==
  /\ __maxSize = (IF config # 0 THEN config ELSE DefaultMaxSize)
  /\ __size = 0
  /\ __keys = EmptyTable
  /\ __oldest = Null
  /\ __newest = Null
  /\ __hits = 0
  /\ __misses = 0
  /\ heap = [i \in Ids |-> Free]

\* The histories of a new cache.
InitHistory ==
  /\ ret = [op |-> "initLRU", path |-> "", val |-> Undefined]
  /\ touchOrder = <<>>
  /\ lastPut = [k \in Keys |-> Null]

\* create({maxSize: config})
Init == InitHistory /\ \E config \in Configs : initLRU(config)

\* create({}): no maxSize given
InitDefault == InitHistory /\ initLRU(0)

\* The state after a call, settled.
Commit(h, tbl, oldest, newest, r, lp) ==
  \E c \in {Settle(h, tbl, oldest, newest, r, lp)} :
  /\ heap' = c.heap
  /\ __keys' = c.tbl
  /\ __oldest' = c.oldest
  /\ __newest' = c.newest
  /\ ret' = c.ret
  /\ lastPut' = c.lastPut

\* --------------------------------------------------------------------- get

\* Mutant of Relink: `entry.newer.older = entry.older` is left out.
RelinkNoSplice(h, oldest, newest, entry) ==
  LET o1 == IF h[entry].newer # Null /\ entry = oldest THEN h[entry].newer ELSE oldest
      h2 == IF h[entry].older # Null
              THEN [h EXCEPT ![h[entry].older].newer = h[entry].newer]
              ELSE h
      h3 == [h2 EXCEPT ![entry].newer = Null, ![entry].older = newest]
      h4 == IF newest # Null THEN [h3 EXCEPT ![newest].newer = entry] ELSE h3
  IN [heap |-> h4, oldest |-> o1, newest |-> entry]

\* `entry === undefined`, for entry = this.__keys[key]
Missing(tbl, key) == key \notin DOMAIN tbl

\* `entry === this.__newest`
IsNewest(entry, newest) == entry = newest

\* get, lines 72-91: unlink the entry and make it the newest.
Relink(h, oldest, newest, entry) ==
  LET o1 == IF h[entry].newer # Null /\ entry = oldest THEN h[entry].newer ELSE oldest
      h1 == IF h[entry].newer # Null
              THEN [h EXCEPT ![h[entry].newer].older = h[entry].older]
              ELSE h
      h2 == IF h1[entry].older # Null
              THEN [h1 EXCEPT ![h1[entry].older].newer = h1[entry].newer]
              ELSE h1
      h3 == [h2 EXCEPT ![entry].newer = Null, ![entry].older = newest]
      h4 == IF newest # Null THEN [h3 EXCEPT ![newest].newer = entry] ELSE h3
  IN [heap |-> h4, oldest |-> o1, newest |-> entry]

\* Mutant of getMiss: the miss is counted as a hit too.
getMissCountsHit(key) ==
  /\ Missing(__keys, key)
  /\ __misses' = __misses + 1
  /\ __hits' = __hits + 1
  /\ Commit(heap, __keys, __oldest, __newest, [op |-> "get", path |-> "miss", val |-> Undefined], lastPut)
  /\ UNCHANGED touchOrder

\* get, lines 59-62: no entry for the key
getMiss(key) ==
  /\ Missing(__keys, key)
  /\ __misses' = __misses + 1
  /\ Commit(heap, __keys, __oldest, __newest, [op |-> "get", path |-> "miss", val |-> Undefined], lastPut)
  /\ UNCHANGED <<__hits, touchOrder>>

\* Mutant of getNewest: the fast path returns without `this.__hits += 1`.
getNewestUncounted(key) ==
  /\ ~Missing(__keys, key)
  /\ IsNewest(__keys[key], __newest)
  /\ Commit(heap, __keys, __oldest, __newest,
            [op |-> "get", path |-> "newest", val |-> heap[__keys[key]].value], lastPut)
  /\ touchOrder' = Touch(touchOrder, key)
  /\ UNCHANGED <<__hits, __misses>>

\* get, lines 67-70: the entry is the newest
getNewest(key) ==
  /\ ~Missing(__keys, key)
  /\ IsNewest(__keys[key], __newest)
  /\ __hits' = __hits + 1
  /\ Commit(heap, __keys, __oldest, __newest,
            [op |-> "get", path |-> "newest", val |-> heap[__keys[key]].value], lastPut)
  /\ touchOrder' = Touch(touchOrder, key)
  /\ UNCHANGED __misses

\* Mutant of getRelink: the entry stays where it is in the chain.
getRelinkInPlace(key) ==
  /\ ~Missing(__keys, key)
  /\ ~IsNewest(__keys[key], __newest)
  /\ Commit(heap, __keys, __oldest, __newest,
            [op |-> "get", path |-> "relink", val |-> heap[__keys[key]].value], lastPut)
  /\ __hits' = __hits + 1
  /\ touchOrder' = Touch(touchOrder, key)
  /\ UNCHANGED __misses

\* get, lines 72-94: the entry is moved to the newest end
getRelink(key) ==
  /\ ~Missing(__keys, key)
  /\ ~IsNewest(__keys[key], __newest)
  /\ \E r \in {Relink(heap, __oldest, __newest, __keys[key])} :
       Commit(r.heap, __keys, r.oldest, r.newest,
              [op |-> "get", path |-> "relink", val |-> r.heap[__keys[key]].value], lastPut)
  /\ __hits' = __hits + 1
  /\ touchOrder' = Touch(touchOrder, key)
  /\ UNCHANGED __misses

get(key) ==
  /\ __hits + __misses < MaxCount
  /\ (getMiss(key) \/ getNewest(key) \/ getRelink(key))
  /\ UNCHANGED <<__maxSize, __size>>

\* --------------------------------------------------------------------- put

\* Mutant of Insert: `oldEntry.newer = entry` is left out.
InsertUnlinked(h, tbl, oldest, newest, key, value) ==
  LET oldEntry == newest
      entry == NewId(h)
      h1 == [h EXCEPT ![entry] = createCacheEntry(key, value, oldEntry, Null)]
  IN [heap |-> h1, tbl |-> SetKey(tbl, key, entry),
      oldest |-> IF oldEntry # Null THEN oldest ELSE entry,
      newest |-> entry, entry |-> entry]

\* put, lines 103-121: create the entry, store it under its key, link it as newest.
Insert(h, tbl, oldest, newest, key, value) ==
  LET oldEntry == newest
      entry == NewId(h)
      h1 == [h EXCEPT ![entry] = createCacheEntry(key, value, oldEntry, Null)]
      h2 == IF oldEntry # Null THEN [h1 EXCEPT ![oldEntry].newer = entry] ELSE h1
  IN [heap |-> h2, tbl |-> SetKey(tbl, key, entry),
      oldest |-> IF oldEntry # Null THEN oldest ELSE entry,
      newest |-> entry, entry |-> entry]

\* Mutant of Full: `>` for `===`.
FullGreater(sz, max) == sz > max

\* `this.__size === this.__maxSize`
Full(sz, max) == sz = max

\* Mutant of Evict: `this.__oldest.older = null` is left out.
EvictLeavesOlder(h, tbl, oldest) ==
  LET removedEntry == oldest
      o1 == h[removedEntry].newer
      h2 == [h EXCEPT ![removedEntry].older = Null, ![removedEntry].newer = Null]
  IN IF o1 = Null
       THEN [heap |-> h, tbl |-> tbl, oldest |-> o1, removedEntry |-> removedEntry,
             removedVal |-> Undefined, threw |-> TRUE]
       ELSE [heap |-> h2, tbl |-> DeleteKey(tbl, h2[removedEntry].key), oldest |-> o1,
             removedEntry |-> removedEntry, removedVal |-> h2[removedEntry].value,
             threw |-> FALSE]

\* put, lines 127-132: remove the oldest entry. `this.__oldest.older = null`
\* throws a TypeError when the removed entry has no newer entry; the call then
\* ends with this.__oldest already null and nothing else of these lines done.
Evict(h, tbl, oldest) ==
  LET removedEntry == oldest
      o1 == h[removedEntry].newer
      h1 == IF o1 # Null THEN [h EXCEPT ![o1].older = Null] ELSE h
      h2 == [h1 EXCEPT ![removedEntry].older = Null, ![removedEntry].newer = Null]
  IN IF o1 = Null
       THEN [heap |-> h, tbl |-> tbl, oldest |-> o1, removedEntry |-> removedEntry,
             removedVal |-> Undefined, threw |-> TRUE]
       ELSE [heap |-> h2, tbl |-> DeleteKey(tbl, h2[removedEntry].key), oldest |-> o1,
             removedEntry |-> removedEntry, removedVal |-> h2[removedEntry].value,
             threw |-> FALSE]

\* Mutant of putEvict: the value returned is that of the entry that becomes the
\* oldest.
putEvictReturnsOldest(key, value) ==
  /\ Full(__size, __maxSize)
  /\ \E a \in {Insert(heap, __keys, __oldest, __newest, key, value)} :
     \E e \in {Evict(a.heap, a.tbl, a.oldest)} :
     LET lp == [lastPut EXCEPT ![key] = a.entry]
     IN /\ Commit(e.heap, e.tbl, e.oldest, a.newest,
                  [op |-> "put", path |-> IF e.threw THEN "threw" ELSE "evict",
                   val |-> IF e.threw THEN Undefined ELSE e.heap[e.oldest].value],
                  [k \in Keys |-> IF ~e.threw /\ lp[k] = e.removedEntry THEN Null ELSE lp[k]])
        /\ touchOrder' = StillPresent(Touch(touchOrder, key), e.heap, e.tbl, a.newest)
  /\ UNCHANGED __size

\* Mutant of putEvict: the size is counted up on this branch too.
putEvictCounted(key, value) ==
  /\ Full(__size, __maxSize)
  /\ \E a \in {Insert(heap, __keys, __oldest, __newest, key, value)} :
     \E e \in {Evict(a.heap, a.tbl, a.oldest)} :
     LET lp == [lastPut EXCEPT ![key] = a.entry]
     IN /\ Commit(e.heap, e.tbl, e.oldest, a.newest,
                  [op |-> "put", path |-> IF e.threw THEN "threw" ELSE "evict",
                   val |-> e.removedVal],
                  [k \in Keys |-> IF ~e.threw /\ lp[k] = e.removedEntry THEN Null ELSE lp[k]])
        /\ touchOrder' = StillPresent(Touch(touchOrder, key), e.heap, e.tbl, a.newest)
  /\ __size' = __size + 1

\* put, lines 126-133: the cache was full, the oldest entry is removed
putEvict(key, value) ==
  /\ Full(__size, __maxSize)
  /\ \E a \in {Insert(heap, __keys, __oldest, __newest, key, value)} :
     \E e \in {Evict(a.heap, a.tbl, a.oldest)} :
     LET lp == [lastPut EXCEPT ![key] = a.entry]
     IN /\ Commit(e.heap, e.tbl, e.oldest, a.newest,
                  [op |-> "put", path |-> IF e.threw THEN "threw" ELSE "evict",
                   val |-> e.removedVal],
                  [k \in Keys |-> IF ~e.threw /\ lp[k] = e.removedEntry THEN Null ELSE lp[k]])
        /\ touchOrder' = StillPresent(Touch(touchOrder, key), e.heap, e.tbl, a.newest)
  /\ UNCHANGED __size

\* Mutant of putGrow: the size is not counted up.
putGrowUncounted(key, value) ==
  /\ ~Full(__size, __maxSize)
  /\ \E a \in {Insert(heap, __keys, __oldest, __newest, key, value)} :
       Commit(a.heap, a.tbl, a.oldest, a.newest, [op |-> "put", path |-> "grow", val |-> Undefined],
               [lastPut EXCEPT ![key] = a.entry])
  /\ __size' = __size
  /\ touchOrder' = Touch(touchOrder, key)

\* put, lines 134-136: the cache was not full
putGrow(key, value) ==
  /\ ~Full(__size, __maxSize)
  /\ \E a \in {Insert(heap, __keys, __oldest, __newest, key, value)} :
       Commit(a.heap, a.tbl, a.oldest, a.newest, [op |-> "put", path |-> "grow", val |-> Undefined],
               [lastPut EXCEPT ![key] = a.entry])
  /\ __size' = __size + 1
  /\ touchOrder' = Touch(touchOrder, key)

\* There is a cell for the entry that put creates.
HasRoom(h) == \E i \in Ids : ~h[i].live

put(key, value) ==
  /\ HasRoom(heap)
  /\ (putEvict(key, value) \/ putGrow(key, value))
  /\ UNCHANGED <<__maxSize, __hits, __misses>>

\* -------------------------------------------------------- peek and clearAll

\* Mutant of peek: the lookup is counted as a hit or a miss, as in get.
peekCounted(key) ==
  /\ __hits + __misses < MaxCount
  /\ Commit(heap, __keys, __oldest, __newest,
            [op |-> "peek", path |-> "",
             val |-> IF Missing(__keys, key) THEN Undefined ELSE __keys[key]],
            lastPut)
  /\ IF Missing(__keys, key)
       THEN __misses' = __misses + 1 /\ UNCHANGED __hits
       ELSE __hits' = __hits + 1 /\ UNCHANGED __misses
  /\ UNCHANGED <<__maxSize, __size, touchOrder>>

\* peek(key): returns this.__keys[key], the entry itself
peek(key) ==
  /\ Commit(heap, __keys, __oldest, __newest,
            [op |-> "peek", path |-> "",
             val |-> IF Missing(__keys, key) THEN Undefined ELSE __keys[key]],
            lastPut)
  /\ UNCHANGED <<__maxSize, __size, __hits, __misses, touchOrder>>

\* Mutant of clearAll: `this.__keys = {}` is left out.
clearAllKeepsKeys ==
  /\ __size' = 0
  /\ __hits' = 0
  /\ __misses' = 0
  /\ Commit(heap, __keys, Null, Null, [op |-> "clearAll", path |-> "", val |-> Undefined],
            [k \in Keys |-> Null])
  /\ touchOrder' = <<>>
  /\ UNCHANGED __maxSize

\* Mutant of clearAll: `this.__size = 0` is left out.
clearAllKeepsSize ==
  /\ __size' = __size
  /\ __hits' = 0
  /\ __misses' = 0
  /\ Commit(heap, EmptyTable, Null, Null, [op |-> "clearAll", path |-> "", val |-> Undefined],
            [k \in Keys |-> Null])
  /\ touchOrder' = <<>>
  /\ UNCHANGED __maxSize

\* clearAll()
clearAll ==
  /\ __size' = 0
  /\ __hits' = 0
  /\ __misses' = 0
  /\ Commit(heap, EmptyTable, Null, Null, [op |-> "clearAll", path |-> "", val |-> Undefined],
            [k \in Keys |-> Null])
  /\ touchOrder' = <<>>
  /\ UNCHANGED __maxSize

\* ------------------------------------------------- keys, values and forEach

\* Mutant of ForEachWalk: fn is handed the key of each entry.
RECURSIVE ForEachKey(_, _, _)
ForEachKey(h, entry, fuel) ==
  IF entry = Null \/ fuel = 0 THEN <<>>
  ELSE <<h[entry].key>> \o ForEachKey(h, h[entry].older, fuel - 1)

\* forEach: the values handed to fn, call after call
RECURSIVE ForEachWalk(_, _, _)
ForEachWalk(h, entry, fuel) ==
  IF entry = Null \/ fuel = 0 THEN <<>>
  ELSE <<h[entry].value>> \o ForEachWalk(h, h[entry].older, fuel - 1)

\* the arguments of the calls of fn that forEach(fn) makes
visited == ForEachWalk(heap, __newest, Fuel)

\* keys(): builds and returns the array, assigns nothing else
keysCall ==
  /\ Commit(heap, __keys, __oldest, __newest, [op |-> "keys", path |-> "", val |-> keys], lastPut)
  /\ UNCHANGED <<__maxSize, __size, __hits, __misses, touchOrder>>

\* values(): builds and returns the array, assigns nothing else
valuesCall ==
  /\ Commit(heap, __keys, __oldest, __newest, [op |-> "values", path |-> "", val |-> values], lastPut)
  /\ UNCHANGED <<__maxSize, __size, __hits, __misses, touchOrder>>

\* forEach(fn), for an fn that does not call the cache: ret.val lists the values
\* fn was called with
forEach ==
  /\ Commit(heap, __keys, __oldest, __newest, [op |-> "forEach", path |-> "", val |-> visited], lastPut)
  /\ UNCHANGED <<__maxSize, __size, __hits, __misses, touchOrder>>

\* -------------------------------------------------------------------- Next

Next ==
  \/ \E key \in Keys : get(key)
  \/ \E key \in Keys, value \in Values : put(key, value)
  \/ \E key \in Keys : peek(key)
  \/ clearAll

Spec == Init /\ [][Next]_vars

SpecDefault == InitDefault /\ [][Next]_vars

\* The calls of Next and the three traversals.
NextAll ==
  \/ Next
  \/ keysCall
  \/ valuesCall
  \/ forEach

SpecAll == Init /\ [][NextAll]_vars

\* put(key, value) by a caller that puts no key that is in the index
putFresh(key, value) == Missing(__keys, key) /\ put(key, value)

\* The calls of such a caller.
NextFresh ==
  \/ \E key \in Keys : get(key)
  \/ \E key \in Keys, value \in Values : putFresh(key, value)
  \/ \E key \in Keys : peek(key)
  \/ clearAll

SpecFresh == Init /\ [][NextFresh]_vars

\* ------------------------------------------------------------------ claims

\* s without its i-th element
RemoveAt(s, i) == SubSeq(s, 1, i - 1) \o SubSeq(s, i + 1, Len(s))

\* how often x occurs in s
Count(s, x) == Cardinality({i \in 1..Len(s) : s[i] = x})

\* the <<key, value>> pairs of the walk, newest to oldest
entries == [i \in 1..Len(keys) |-> <<keys[i], values[i]>>]

\* The step is the call get(key). After a hit the entry of the key is the
\* newest, which spares evaluating get for the other keys.
GetStep(key) ==
  /\ ret'.op = "get"
  /\ (ret'.path # "miss" => __newest' # Null /\ heap'[__newest'].key = key)
  /\ get(key)

\* The step is the call put(key, value): the newest entry is the one it created.
PutStep(key, value) ==
  /\ ret'.op = "put"
  /\ __newest' # Null /\ heap'[__newest'].key = key /\ heap'[__newest'].value = value
  /\ put(key, value)

\* The step is the call peek(key).
PeekStep(key) == ret'.op = "peek" /\ peek(key)

\* The step is the call clearAll().
ClearAllStep == ret'.op = "clearAll" /\ clearAll

\* C1: in every reachable state of a cache constructed with maxSize >= 1,
\* 0 <= size() <= maxSize.
C1_SizeWithinCapacity == __maxSize >= 1 => (0 <= size /\ size <= __maxSize)

\* A full cache on which a put has just evicted.
C1_Witness == size = __maxSize /\ ret.op = "put" /\ ret.path = "evict"

\* C2: whenever a put evicts, the key of the entry it removes (the key it deletes
\* from the index) is, among the keys present before the put, the one whose
\* most recent touch (a put or a successful get) is the earliest.
C2_EvictsLeastRecentlyTouched ==
  [][\A key \in Keys, value \in Values :
       (PutStep(key, value) /\ ret'.path = "evict") =>
         /\ touchOrder # <<>>
         /\ heap[__oldest].key = touchOrder[Len(touchOrder)]]_vars

\* C3: if lastPut[k] is the entry of the latest put of k, not cleared and not
\* evicted since, get(k) returns the value of that put and counts a hit.
C3_RoundTrip ==
  [][\A key \in Keys :
       (lastPut[key] # Null /\ GetStep(key)) =>
         /\ ret'.val = heap[lastPut[key]].value
         /\ hits' = hits + 1]_vars

C5_PutReplaces ==
  [][\A key \in Keys, value \in Values :
       (~Missing(__keys, key) /\ PutStep(key, value)) =>
         /\ Count(keys', key) = 1
         /\ keys'[1] = key
         /\ values'[1] = value]_vars

\* C6: size() is at most the number of distinct keys the index can retrieve.
C6_SizeAtMostKeys == size <= Cardinality(DOMAIN __keys)

\* C7: the keys of the index are exactly the keys of the entries of the chain.
C7_IndexMatchesChain == DOMAIN __keys = {keys[i] : i \in 1..Len(keys)}

\* C8: a get of a key in the index adds 1 to hits and leaves misses, a get of a
\* key not in the index adds 1 to misses and leaves hits, a put changes neither.
C8_HitMissAccounting ==
  [][/\ \A key \in Keys :
          GetStep(key) =>
            IF Missing(__keys, key)
              THEN misses' = misses + 1 /\ hits' = hits
              ELSE hits' = hits + 1 /\ misses' = misses
     /\ \A key \in Keys, value \in Values :
          (hits' = hits /\ misses' = misses) \/ ~PutStep(key, value)]_vars

\* A get has just counted a hit on the relinking path.
C8_Witness == hits = 1 /\ misses = 0 /\ ret.op = "get" /\ ret.path = "relink"

\* C9: peek(k), for a key in the index or not, changes nothing of the cache:
\* keys(), values(), size(), hits(), misses(), oldest, newest, the index, the entries.
C9_PeekChangesNothing ==
  [][\A key \in Keys :
       PeekStep(key) =>
         /\ keys' = keys /\ values' = values /\ size' = size
         /\ hits' = hits /\ misses' = misses
         /\ __oldest' = __oldest /\ __newest' = __newest
         /\ cache' = cache]_vars

\* peek has just returned an entry that is not the newest one.
C9_Witness == ret.op = "peek" /\ ret.val # Undefined /\ ret.val # __newest /\ size >= 2

\* The state of a newly constructed cache of capacity __maxSize.
Fresh == initLRU(__maxSize) /\ touchOrder = <<>> /\ lastPut = [k \in Keys |-> Null]

\* C10: clearAll() leaves size() = 0, hits() = 0, misses() = 0, keys() = [] and
\* maxSize as it was, in the very state of a newly constructed cache of that
\* maxSize, from which every sequence of calls therefore runs the same.
C10_ClearAllIsFresh ==
  [][ClearAllStep =>
       /\ size' = 0 /\ hits' = 0 /\ misses' = 0 /\ keys' = <<>>
       /\ __maxSize' = __maxSize
       /\ Fresh']_vars

\* clearAll has just run.
C10_Witness == ret.op = "clearAll" /\ size = 0 /\ keys = <<>>

\* C11: keys(), values() and the values handed to the forEach visitor have the
\* same length and the same newest-to-oldest order: keys()[i] and values()[i]
\* are the key and the value of one entry, the i-th call of the visitor gets
\* values()[i]; and a call of any of the three changes nothing of the cache.
C11_TraversalsAgree ==
  /\ [](/\ Len(keys) = Len(values) /\ Len(visited) = Len(values)
        /\ Len(chain) = Len(keys)
        /\ \A i \in 1..Len(keys) :
             /\ keys[i] = heap[chain[i]].key
             /\ values[i] = heap[chain[i]].value
             /\ visited[i] = values[i])
  /\ [][(ret'.op \in {"keys", "values", "forEach"}) =>
          /\ cache' = cache
          /\ ret'.val = (IF ret'.op = "keys" THEN keys
                         ELSE IF ret'.op = "values" THEN values ELSE visited)]_vars

\* forEach has just visited the two values of a cache that holds two entries
\* of different keys and values.
C11_Witness ==
  /\ ret.op = "forEach" /\ Len(ret.val) = 2
  /\ keys[1] # keys[2] /\ values[1] # values[2]

\* C12: a put returns an evicted value exactly when size() = maxSize held just
\* before it, and size() is then the same after it; otherwise it returns
\* undefined and size() is greater by exactly 1.
C12_PutEvictsIffFull ==
  [][ret'.op = "put" =>
       IF size = __maxSize
         THEN ret'.val \in Values /\ size' = size
         ELSE ret'.val = Undefined /\ size' = size + 1]_vars

\* A put on a full cache of capacity 2 has just returned the value it evicted.
C12_Witness == ret.op = "put" /\ ret.val \in Values /\ __maxSize = 2 /\ size = 2

\* C13: on a cache made with maxSize >= 1 no call faults: no put has ended in
\* the TypeError of `this.__oldest.older = null`; on a full cache the entry a
\* put would remove has a newer entry once the new entry is linked, for
\* maxSize = 1 too; and an entry of the index that get would move has a newer
\* entry beside it.
C13_NoFault ==
  __maxSize >= 1 =>
    /\ ret.path # "threw"
    /\ (Full(__size, __maxSize) /\ HasRoom(heap)) =>
         \A key \in Keys, value \in Values :
           LET a == Insert(heap, __keys, __oldest, __newest, key, value)
           IN a.oldest # Null /\ a.heap[a.oldest].newer # Null
    /\ \A key \in DOMAIN __keys :
         ~IsNewest(__keys[key], __newest) =>
           __newest # Null /\ heap[__keys[key]].newer # Null

\* A put on a full cache of capacity 1 has just removed the only entry.
C13_Witness == ret.op = "put" /\ ret.path = "evict" /\ __maxSize = 1 /\ size = 1

\* C14: in every reachable state the older and newer links form one well-formed
\* doubly-linked chain: from newest along older the walk meets no entry twice,
\* ends at oldest and then at null; newest.newer and oldest.older are null; and
\* for a chain entry e, e.older.newer is e when e.older is an entry, e.newer.older
\* is e when e.newer is an entry.
C14_ChainWellFormed ==
  /\ \A i, j \in 1..Len(chain) : chain[i] = chain[j] => i = j
  /\ (__newest = Null) <=> (__oldest = Null)
  /\ __newest # Null =>
       /\ chain[Len(chain)] = __oldest
       /\ heap[__oldest].older = Null
       /\ heap[__newest].newer = Null
  /\ \A i \in 1..Len(chain) :
       LET e == heap[chain[i]]
       IN /\ e.older # Null => heap[e.older].newer = chain[i]
          /\ e.newer # Null => heap[e.newer].older = chain[i]
          /\ e.older = (IF i < Len(chain) THEN chain[i + 1] ELSE Null)
          /\ e.newer = (IF i > 1 THEN chain[i - 1] ELSE Null)

\* A get has just moved the older of two entries to the newest end.
C14_Witness ==
  /\ ret.op = "get" /\ ret.path = "relink"
  /\ Len(chain) = 2 /\ heap[__newest].older = __oldest /\ heap[__oldest].newer = __newest

\* C15: in every reachable state oldest and newest are both null exactly when
\* size() = 0, and they are one and the same entry exactly when size() = 1.
C15_EndsAndSize ==
  /\ (__oldest = Null /\ __newest = Null) <=> (size = 0)
  /\ (__oldest # Null /\ __oldest = __newest) <=> (size = 1)

\* A put on a full cache of capacity 1 has left its entry as both ends.
C15_Witness == ret.op = "put" /\ ret.val \in Values /\ size = 1 /\ __oldest = __newest

RefIndex(m, key) == {i \in 1..Len(m) : m[i][1] = key}

\* the reference get: a pair found goes to the front and its value is returned
RefGet(m, key) ==
  IF RefIndex(m, key) = {} THEN [m |-> m, val |-> Undefined]
  ELSE LET i == CHOOSE j \in RefIndex(m, key) : TRUE
       IN [m |-> <<m[i]>> \o RemoveAt(m, i), val |-> m[i][2]]

\* the reference put of a key that is not in m: the pair goes to the front, and
\* the least recent pair is dropped and its value returned when m was at max
RefPut(m, key, value, max) ==
  LET m1 == <<<<key, value>>>> \o m
  IN IF Len(m1) > max
       THEN [m |-> SubSeq(m1, 1, max), val |-> m1[Len(m1)][2]]
       ELSE [m |-> m1, val |-> Undefined]

C18_GetMissChangesOnlyMisses ==
  [][\A key \in Keys :
       (ret'.op = "get" /\ Missing(__keys, key) /\ get(key)) =>
         /\ ret'.val = Undefined
         /\ keys' = keys /\ values' = values /\ size' = size /\ hits' = hits
         /\ __oldest' = __oldest /\ __newest' = __newest /\ __keys' = __keys
         /\ heap' = heap /\ __maxSize' = __maxSize
         /\ misses' # misses]_vars

\* A get has just missed on a cache that holds an entry of another key.
C18_Witness == ret.op = "get" /\ ret.path = "miss" /\ Len(keys) >= 1 /\ misses = 1

\* C19: in every reachable state every entry that the index refers to is an
\* entry of the chain walked from newest along older, and is stored under its
\* own key; so the entry a peek has returned and the entry whose value a get
\* has returned are entries of the chain, not entries a put has removed.
C19_IndexedEntriesOnChain ==
  /\ \A key \in DOMAIN __keys :
       /\ __keys[key] \in Range(chain)
       /\ heap[__keys[key]].live
       /\ heap[__keys[key]].key = key
  /\ (ret.op = "peek" /\ ret.val # Undefined) => ret.val \in Range(chain)
  /\ (ret.op = "get" /\ ret.path # "miss") =>
       __newest # Null /\ __newest \in Range(chain) /\ ret.val = heap[__newest].value

\* peek has just returned an entry of a cache whose chain holds an entry that
\* the index no longer refers to.
C19_Witness ==
  /\ ret.op = "peek" /\ ret.val # Undefined
  /\ Cardinality(DOMAIN __keys) < Len(chain)

\* C20: in every reachable state the number of entries of the chain, which is
\* the length of keys() and of values(), is size().
C20_ChainLengthIsSize == Len(keys) = size /\ Len(values) = size /\ Len(chain) = size

\* The chain holds two entries of one key, and size() is 2.
C20_Witness == size = 2 /\ Len(keys) = 2 /\ keys[1] = keys[2]

====
